---- MODULE Spec2Model ----
(***************************************************************************)
(* A model of application/components.py of the MovieLocationsOntology      *)
(* application: the config store (get_config, overwrite_config), the       *)
(* endpoint validator (verify_endpoint over query_to_pandas), the filter   *)
(* builder (generate_filter_string) and the geo helpers (haversine,        *)
(* get_minmax_coords).                                                     *)
(*                                                                         *)
(* Text (file contents, option values, query fragments) is a string, and   *)
(* writing and parsing the config file are modelled by what ConfigParser   *)
(* does to its characters.                                                 *)
(***************************************************************************)
EXTENDS Integers, Sequences, FiniteSets, TLC

VARIABLES
    fs,             \* the file at get_config_path(): NoFile, or its text
    pre_fs,         \* fs as it was when the last config call started
    cfg_op,         \* the last config call: "none", "get_config", "overwrite_config"
    cfg_ret,        \* what the last get_config returned (a config) or raised
    last_overwrite  \* the config passed to the most recent overwrite_config, if any

cfg_vars == <<fs, pre_fs, cfg_op, cfg_ret, last_overwrite>>

VARIABLES
    ve_pc,          \* where the verify_endpoint call is
    ve_sparql,      \* the SPARQLWrapper client of the call
    ve_log,         \* what the call did to the client and the endpoint, in order
    ve_actors,      \* the table of the Actor query, once it has returned
    ve_plays_in,    \* the table of the playsIn query, once it has returned
    ve_exc,         \* the exception the try block raised, in flight
    ve_query_exc,   \* the exception a canary query raised, if one did
    ve_out          \* how the call ended: returned, or the exception that left it

ve_vars == <<ve_pc, ve_sparql, ve_log, ve_actors, ve_plays_in, ve_exc,
             ve_query_exc, ve_out>>

VARIABLES
    fl_call,        \* the arguments of the last generate_filter_string call
    fl_result       \* the string it returned

fl_vars == <<fl_call, fl_result>>

VARIABLES
    pc,             \* per process: where its get_config or overwrite_config call is
    arg,            \* per process: the config its call holds
    ret,            \* per process: what its last get_config returned, if it has
    committed,      \* the config a caller's overwrite_config persisted, while no
                    \* other overwrite_config call has touched the file since
    gc_wrote,       \* a get_config wrote its default since `committed` was set
    ow_completed,   \* some caller's overwrite_config has completed
    gc_after,       \* per process: its get_config started after one completed
    gc_seen,        \* per process: `committed` when its get_config started,
                    \* dropped when a caller's overwrite_config intervenes
                    \* before it returns
    gc_clobber      \* per process: a get_config wrote its default between
                    \* `gc_seen` being persisted and this get_config's return

cc_vars == <<pc, arg, ret, committed, gc_wrote, ow_completed, gc_after, gc_seen,
             gc_clobber>>

VARIABLES
    geo_lat,        \* the latitude of the centre of the search
    geo_lon,        \* its longitude
    geo_prev,       \* the call of get_minmax_coords before the last
    geo_box,        \* the last call of get_minmax_coords: radius and box
    geo_hav         \* the last point measured with haversine, and its distance

geo_vars == <<geo_lat, geo_lon, geo_prev, geo_box, geo_hav>>

vars == <<cfg_vars, ve_vars, fl_vars, cc_vars, geo_vars>>

----------------------------------------------------------------------------
(* Bounds of the model *)

\* longest endpoint string handed to overwrite_config
MaxLen == 2

\* most rows an endpoint answers a canary query with
MaxRows == 2

\* longest list of values handed to generate_filter_string
MaxValues == 3

\* processes calling the config store at the same time
NProcs == 2

----------------------------------------------------------------------------
(* Text helpers: Python's str methods on sequences of characters *)

NL == "\n"
TAB == "\t"

\* s[i]: the character of s at position i (from 1)
Char(s, i) == SubSeq(s, i, i)

\* the characters of s
Range(s) == {Char(s, i) : i \in 1..Len(s)}

\* str.strip() with no argument strips whitespace; the model's whitespace
Whitespace == {" ", TAB, NL}

RECURSIVE lstrip(_)
lstrip(s) ==
    IF s # "" /\ Head(s) \in Whitespace THEN lstrip(Tail(s)) ELSE s

RECURSIVE rstrip(_)
rstrip(s) ==
    IF s # "" /\ Char(s, Len(s)) \in Whitespace
    THEN rstrip(SubSeq(s, 1, Len(s) - 1))
    ELSE s

strip(s) == lstrip(rstrip(s))

startswith(s, p) == Len(s) >= Len(p) /\ SubSeq(s, 1, Len(p)) = p

\* sep.join(parts)
RECURSIVE join(_, _)
join(sep, parts) ==
    IF parts = <<>> THEN ""
    ELSE IF Len(parts) = 1 THEN parts[1]
    ELSE parts[1] \o sep \o join(sep, Tail(parts))

\* s.replace(c, by) for a one-character c
RECURSIVE replace(_, _, _)
replace(s, c, by) ==
    IF s = "" THEN ""
    ELSE (IF Head(s) = c THEN by ELSE Head(s)) \o replace(Tail(s), c, by)

\* the lines a text file yields when iterated, without their line ends
RECURSIVE splitlines(_, _)
splitlines(text, cur) ==
    IF text = "" THEN (IF cur = "" THEN <<>> ELSE <<cur>>)
    ELSE IF Head(text) = NL THEN <<cur>> \o splitlines(Tail(text), "")
    ELSE splitlines(Tail(text), cur \o Head(text))

\* index of the first element of s in set S, 0 when there is none
RECURSIVE find_in(_, _, _)
find_in(s, S, i) ==
    IF i > Len(s) THEN 0
    ELSE IF Char(s, i) \in S THEN i
    ELSE find_in(s, S, i + 1)

\* index of the last element of s in set S, 0 when there is none
RECURSIVE rfind_in(_, _, _)
rfind_in(s, S, i) ==
    IF i < 1 THEN 0
    ELSE IF Char(s, i) \in S THEN i
    ELSE rfind_in(s, S, i - 1)

\* str.lower() on the letters the model uses in option names
lower_char(c) == IF c = "E" THEN "e" ELSE c

RECURSIVE lower(_)
lower(s) == IF s = "" THEN "" ELSE lower_char(Head(s)) \o lower(Tail(s))

----------------------------------------------------------------------------
(* ConfigParser: a config is a sequence of sections, each a name and a     *)
(* sequence of (key, value) options in insertion order                      *)

\* what is at the config path: no file, or a file with its text
NoFile == [exists |-> FALSE, text |-> ""]
File(text) == [exists |-> TRUE, text |-> text]

\* an optional value: <<>> for none, <<v>> for v
None == <<>>
Some(v) == <<v>>

Configuration == "Configuration"
Endpoint == "Endpoint"

\* ConfigParser.optionxform: option names are lower-cased
optionxform(optionstr) == lower(optionstr)

EmptyConfig == <<>>

section_index(config, name) ==
    LET hits == {i \in 1..Len(config) : config[i].name = name}
    IN IF hits = {} THEN 0 ELSE CHOOSE i \in hits : TRUE

option_index(opts, key) ==
    LET hits == {i \in 1..Len(opts) : opts[i].key = key}
    IN IF hits = {} THEN 0 ELSE CHOOSE i \in hits : TRUE

\* opts[key] = value on an insertion-ordered dict
set_option(opts, key, value) ==
    LET i == option_index(opts, key)
    IN IF i = 0 THEN Append(opts, [key |-> key, value |-> value])
       ELSE [opts EXCEPT ![i].value = value]

\* config[section] = {option: value}: the section is replaced or added
set_section(config, name, option, value) ==
    LET i == section_index(config, name)
        sect == [name |-> name,
                 opts |-> <<[key |-> optionxform(option), value |-> value]>>]
    IN IF i = 0 THEN Append(config, sect) ELSE [config EXCEPT ![i] = sect]

\* the raw value config[section][option], None when it is not there
get_option(config, name, option) ==
    LET i == section_index(config, name)
    IN IF i = 0 THEN None
       ELSE LET j == option_index(config[i].opts, optionxform(option))
            IN IF j = 0 THEN None ELSE Some(config[i].opts[j].value)

\* RawConfigParser._write_section
RECURSIVE write_options(_)
write_options(opts) ==
    IF opts = <<>> THEN ""
    ELSE Head(opts).key \o " = "
         \o replace(Head(opts).value, NL, NL \o TAB) \o NL
         \o write_options(Tail(opts))

write_section(sect) ==
    "[" \o sect.name \o "]" \o NL \o write_options(sect.opts) \o NL

\* RawConfigParser.write: the text of the whole config
RECURSIVE config_write(_)
config_write(config) ==
    IF config = <<>> THEN ""
    ELSE write_section(Head(config)) \o config_write(Tail(config))

\* RawConfigParser._read, line by line.  The parse state st holds the
\* sections read so far (values still lists of lines), whether an option is
\* open (optname), indent_level, and whether a non-fatal ParsingError was
\* recorded; st.raised is the exception that ended the read, or "none".
comment_prefixes == {"#", ";"}
delimiters == {"=", ":"}
LineSpace == {" ", TAB}

ParseStart ==
    [sects |-> <<>>, optname |-> FALSE, indent |-> 0, perr |-> FALSE,
     raised |-> "none"]

\* cursect[optname].append(v) on the option read last
append_value(sects, v) ==
    LET i == Len(sects)
        j == Len(sects[i].opts)
    IN [sects EXCEPT ![i].opts[j].lines = Append(@, v)]

\* SECTCRE.match(value): "[" header "]", the header as long as it can be
is_section_header(value) ==
    /\ value # ""
    /\ Head(value) = "["
    /\ rfind_in(value, {"]"}, Len(value)) >= 3

section_header(value) == SubSeq(value, 2, rfind_in(value, {"]"}, Len(value)) - 1)

read_section_header(st, value, cur_indent) ==
    LET sectname == section_header(value)
    IN IF \E i \in 1..Len(st.sects) : st.sects[i].name = sectname
       THEN [st EXCEPT !.raised = "DuplicateSectionError"]
       ELSE [st EXCEPT !.sects = Append(@, [name |-> sectname, opts |-> <<>>]),
                       !.optname = FALSE,
                       !.indent = cur_indent]

\* _optcre.match(value): option, delimiter, value
read_option(st, value, cur_indent) ==
    LET d == find_in(value, delimiters, 1)
        optname == optionxform(rstrip(SubSeq(value, 1, d - 1)))
        optval == strip(SubSeq(value, d + 1, Len(value)))
        i == Len(st.sects)
    IN IF d = 0
       THEN [st EXCEPT !.perr = TRUE, !.indent = cur_indent]
       ELSE IF option_index(st.sects[i].opts, optname) # 0
       THEN [st EXCEPT !.raised = "DuplicateOptionError"]
       ELSE [st EXCEPT !.sects[i].opts =
                           Append(@, [key |-> optname, lines |-> <<optval>>]),
                       !.optname = (optname # ""),
                       !.perr = (st.perr \/ optname = ""),
                       !.indent = cur_indent]

read_line(st, line) ==
    LET stripped == strip(line)
        is_comment == stripped # "" /\ Head(stripped) \in comment_prefixes
        value == IF is_comment THEN "" ELSE stripped
        cur_indent == find_in(line, {c \in Range(line) : c \notin LineSpace}, 1) - 1
    IN IF value = ""
       THEN IF ~is_comment /\ st.sects # <<>> /\ st.optname
            THEN [st EXCEPT !.sects = append_value(st.sects, "")]
            ELSE st
       ELSE IF st.sects # <<>> /\ st.optname /\ cur_indent > st.indent
       THEN [st EXCEPT !.sects = append_value(st.sects, value)]
       ELSE IF is_section_header(value)
       THEN read_section_header(st, value, cur_indent)
       ELSE IF st.sects = <<>>
       THEN [st EXCEPT !.raised = "MissingSectionHeaderError"]
       ELSE read_option(st, value, cur_indent)

RECURSIVE read_lines(_, _)
read_lines(st, lines) ==
    IF lines = <<>> \/ st.raised # "none" THEN st
    ELSE read_lines(read_line(st, Head(lines)), Tail(lines))

\* _join_multiline_values: "\n".join(lines).rstrip()
join_values(opts) ==
    [j \in 1..Len(opts) |->
        [key |-> opts[j].key, value |-> rstrip(join(NL, opts[j].lines))]]

\* the sections read are merged into the config the parser already holds
RECURSIVE merge_options(_, _)
merge_options(opts, new) ==
    IF new = <<>> THEN opts
    ELSE merge_options(set_option(opts, Head(new).key, Head(new).value), Tail(new))

RECURSIVE merge_sections(_, _)
merge_sections(config, new) ==
    IF new = <<>> THEN config
    ELSE LET i == section_index(config, Head(new).name)
             opts == join_values(Head(new).opts)
         IN merge_sections(
                IF i = 0
                THEN Append(config, [name |-> Head(new).name, opts |-> opts])
                ELSE [config EXCEPT ![i].opts = merge_options(@, opts)],
                Tail(new))

\* config.read(path) on a parser holding `config`: the exception raised
\* ("none" for none) and the config the parser holds afterwards.  A path
\* that cannot be opened is skipped silently.
config_read(config, file) ==
    IF ~file.exists THEN [raised |-> "none", config |-> Some(config)]
    ELSE LET st == read_lines(ParseStart, splitlines(file.text, ""))
         IN IF st.raised # "none" THEN [raised |-> st.raised, config |-> None]
            ELSE IF st.perr THEN [raised |-> "ParsingError", config |-> None]
            ELSE [raised |-> "none",
                  config |-> Some(merge_sections(config, st.sects))]

----------------------------------------------------------------------------
(* Config store *)

\* a check of the file's size in place of its existence
isfile_nonempty(file) == file.exists /\ file.text # ""

\* os.path.isfile(config_path)
isfile(file) == file.exists

\* (mutant) the file opened for appending: what it holds is kept
open_append(file) == IF file.exists THEN file ELSE File("")

\* open(config_path, "w+"): the file is created if absent, truncated if present
open_w_plus(file) == File("")

\* overwrite_config(config) on a path holding `file`: the file afterwards
overwrite_config(file, config) ==
    File(open_w_plus(file).text \o config_write(config))

\* (mutant) get_config that does not persist the default it initializes
get_config_not_persisted(file) ==
    LET fresh == ~isfile(file)
        config == IF fresh
                  THEN set_section(EmptyConfig, Configuration, Endpoint, "")
                  ELSE EmptyConfig
        r == config_read(config, file)
    IN [fs |-> file, raised |-> r.raised, config |-> r.config]

\* (mutant) get_config that initializes the file whether or not it exists
get_config_always_init(file) ==
    LET config == set_section(EmptyConfig, Configuration, Endpoint, "")
        file1 == overwrite_config(file, config)
        r == config_read(config, file1)
    IN [fs |-> file1, raised |-> r.raised, config |-> r.config]

\* get_config() on a path holding `file`: the file afterwards, and the config
\* returned or the exception config.read raised
get_config(file) ==
    LET fresh == ~isfile(file)
        config == IF fresh
                  THEN set_section(EmptyConfig, Configuration, Endpoint, "")
                  ELSE EmptyConfig
        file1 == IF fresh THEN overwrite_config(file, config) ELSE file
        r == config_read(config, file1)
    IN [fs |-> file1, raised |-> r.raised, config |-> r.config]

\* the endpoint strings callers store: up to MaxLen characters
EndpointChars == {"u", " ", NL, "#"}

RECURSIVE StringsUpTo(_, _)
StringsUpTo(chars, n) ==
    IF n = 0 THEN {""}
    ELSE LET shorter == StringsUpTo(chars, n - 1)
         IN shorter \cup {w \o c : w \in shorter, c \in chars}

Endpoints == StringsUpTo(EndpointChars, MaxLen)

EndpointConfig(v) == set_section(EmptyConfig, Configuration, Endpoint, v)

\* the configs handed to overwrite_config
Configs == {EmptyConfig} \cup {EndpointConfig(v) : v \in Endpoints}

\* the files a run may find at the config path when it starts
InitFiles == {NoFile, File(""), File("endpoint = u\n"),
              File("[Configuration]\nendpoint = \n\n"),
              File("[Configuration]\nendpoint = u\n\n")}

NoReturn == [raised |-> "none", config |-> None]

CfgInit ==
    /\ fs \in InitFiles
    /\ pre_fs = fs
    /\ cfg_op = "none"
    /\ cfg_ret = NoReturn
    /\ last_overwrite = None

GetConfig ==
    LET r == get_config(fs)
    IN /\ pre_fs' = fs
       /\ fs' = r.fs
       /\ cfg_op' = "get_config"
       /\ cfg_ret' = [raised |-> r.raised, config |-> r.config]
       /\ UNCHANGED last_overwrite
       /\ UNCHANGED <<ve_vars, fl_vars, cc_vars, geo_vars>>

OverwriteConfig(config) ==
    /\ pre_fs' = fs
    /\ fs' = overwrite_config(fs, config)
    /\ cfg_op' = "overwrite_config"
    /\ cfg_ret' = NoReturn
    /\ last_overwrite' = Some(config)
    /\ UNCHANGED <<ve_vars, fl_vars, cc_vars, geo_vars>>

Next ==
    \/ GetConfig
    \/ \E config \in Configs : OverwriteConfig(config)

----------------------------------------------------------------------------
(* Query executor and endpoint validator *)

\* SPARQLWrapper(endpoint)
SPARQLWrapper(endpoint) ==
    [endpoint |-> endpoint, timeout |-> None, returnFormat |-> None,
     queryString |-> None]

setTimeout(sparql, timeout) == [sparql EXCEPT !.timeout = Some(timeout)]
setReturnFormat(sparql, format) == [sparql EXCEPT !.returnFormat = Some(format)]
setQuery(sparql, query) == [sparql EXCEPT !.queryString = Some(query)]

CSV == "csv"

Exc(kind, msg) == [kind |-> kind, msg |-> msg]

\* the classes derived from Exception; KeyboardInterrupt is a BaseException only
is_Exception(e) == e.kind # "KeyboardInterrupt"

\* what the endpoint can do to one request: the transport raises, or a body
\* of bytes comes back (valid UTF-8 or not)
TransportErrors ==
    {Exc("URLError", "Connection refused"), Exc("URLError", "timed out"),
     Exc("EndPointNotFound", "404"), Exc("KeyboardInterrupt", "")}

RECURSIVE CsvRows(_)
CsvRows(n) == IF n = 0 THEN "" ELSE "r\n" \o CsvRows(n - 1)

Bodies == {""} \cup {"h\n" \o CsvRows(n) : n \in 0..MaxRows}

Responses ==
    {[raised |-> Some(e), valid |-> TRUE, text |-> ""] : e \in TransportErrors}
    \cup {[raised |-> None, valid |-> FALSE, text |-> ""]}
    \cup {[raised |-> None, valid |-> TRUE, text |-> b] : b \in Bodies}

\* pd.read_csv(csv): the first line that is not blank is the header, the
\* other lines that are not blank are the rows; no line at all is an error
read_csv(text) ==
    LET lines == SelectSeq(splitlines(text, ""), LAMBDA l : l # "")
    IN IF lines = <<>>
       THEN [raised |-> Some(Exc("EmptyDataError", "No columns to parse from file")),
             df |-> None]
       ELSE [raised |-> None,
             df |-> Some([columns |-> Head(lines), rows |-> Tail(lines)])]

\* len(df)
len(df) == Len(df.rows)

prefixes == <<[prefix |-> "ml", value |-> "http://example.com/movieLocations/"]>>

RECURSIVE prefixed(_, _)
prefixed(pfx, query) ==
    IF pfx = <<>> THEN query
    ELSE prefixed(Tail(pfx),
                  "PREFIX " \o Head(pfx).prefix \o ": <" \o Head(pfx).value
                  \o "> " \o query)

\* query_to_pandas(sparql, query) when the endpoint answers with `response`:
\* the client afterwards, the request sent, and the table or the exception
query_to_pandas(sparql, query, response) ==
    LET sparql1 == setQuery(setReturnFormat(sparql, CSV), prefixed(prefixes, query))
        sent == [op |-> "query", query |-> sparql1.queryString[1],
                 timeout |-> sparql1.timeout, format |-> sparql1.returnFormat[1],
                 endpoint |-> sparql1.endpoint]
        parsed == read_csv(response.text)
    IN IF response.raised # None
       THEN [sparql |-> sparql1, sent |-> sent, raised |-> response.raised, df |-> None]
       ELSE IF ~response.valid
       THEN [sparql |-> sparql1, sent |-> sent,
             raised |-> Some(Exc("UnicodeDecodeError", "invalid start byte")),
             df |-> None]
       ELSE [sparql |-> sparql1, sent |-> sent, raised |-> parsed.raised,
             df |-> parsed.df]

ActorQuery == "SELECT * WHERE {?actor rdf:type ml:Actor} LIMIT 5"
PlaysInQuery == "SELECT * WHERE {?actor ml:playsIn ?show} LIMIT 5"

\* the message of line 102; it quotes OWL2-RL in backquotes, which a string
\* of this module cannot hold and which are written ' here
WrongRulesetError ==
    Exc("WrongRulesetError",
        "The wrong inference rules are used, please use 'OWL2-RL'.")

\* (mutant) a client whose timeout is never set
verify_client_no_timeout(endpoint) == SPARQLWrapper(endpoint)

\* the client verify_endpoint queries with
verify_client(endpoint) == setTimeout(SPARQLWrapper(endpoint), 5)

\* (mutant) the ruleset is found wrong only when both tables are empty
wrong_ruleset_both(actors, plays_in) == ~(len(plays_in) > 0) /\ ~(len(actors) > 0)

\* the condition under which verify_endpoint raises WrongRulesetError
wrong_ruleset(actors, plays_in) == ~(len(plays_in) > 0) \/ ~(len(actors) > 0)

\* (mutant) a handler that reports every failure as a wrong ruleset
except_handler_wraps(e) == WrongRulesetError

\* except Exception as e: raise e
except_handler(e) == e

EndpointUrls == {"http://localhost:7200/repositories/ml", ""}

VeIdle ==
    /\ ve_pc = "idle"
    /\ ve_sparql = None
    /\ ve_log = <<>>
    /\ ve_actors = None
    /\ ve_plays_in = None
    /\ ve_exc = None
    /\ ve_query_exc = None
    /\ ve_out = None

\* the request of a query_to_pandas call and whether a table came back
Logged(r) ==
    [op |-> "query", query |-> r.sent.query, timeout |-> r.sent.timeout,
     format |-> r.sent.format, endpoint |-> r.sent.endpoint,
     ok |-> (r.raised = None)]

\* lines 89-90: the client is built and its timeout set
VerifyStart(endpoint) ==
    /\ ve_pc = "idle"
    /\ ve_sparql' = Some(verify_client(endpoint))
    /\ ve_log' = IF verify_client(endpoint).timeout = None THEN <<>>
                 ELSE <<[op |-> "setTimeout",
                         timeout |-> verify_client(endpoint).timeout]>>
    /\ ve_pc' = "actors"
    /\ UNCHANGED <<ve_actors, ve_plays_in, ve_exc, ve_query_exc, ve_out>>
    /\ UNCHANGED <<cfg_vars, fl_vars, cc_vars, geo_vars>>

\* lines 93-95: the Actor query
QueryActors(response) ==
    LET r == query_to_pandas(ve_sparql[1], ActorQuery, response)
    IN /\ ve_pc = "actors"
       /\ ve_sparql' = Some(r.sparql)
       /\ ve_log' = Append(ve_log, Logged(r))
       /\ ve_actors' = r.df
       /\ ve_exc' = r.raised
       /\ ve_query_exc' = r.raised
       /\ ve_pc' = IF r.raised = None THEN "plays_in" ELSE "raised"
       /\ UNCHANGED <<ve_plays_in, ve_out>>
       /\ UNCHANGED <<cfg_vars, fl_vars, cc_vars, geo_vars>>

\* lines 96-98: the playsIn query
QueryPlaysIn(response) ==
    LET r == query_to_pandas(ve_sparql[1], PlaysInQuery, response)
    IN /\ ve_pc = "plays_in"
       /\ ve_sparql' = Some(r.sparql)
       /\ ve_log' = Append(ve_log, Logged(r))
       /\ ve_plays_in' = r.df
       /\ ve_exc' = r.raised
       /\ ve_query_exc' = r.raised
       /\ ve_pc' = IF r.raised = None THEN "decide" ELSE "raised"
       /\ UNCHANGED <<ve_actors, ve_out>>
       /\ UNCHANGED <<cfg_vars, fl_vars, cc_vars, geo_vars>>

\* lines 100-103: the row counts decide
Decide ==
    /\ ve_pc = "decide"
    /\ ve_log' = Append(ve_log, [op |-> "decide"])
    /\ IF wrong_ruleset(ve_actors[1], ve_plays_in[1])
       THEN /\ ve_exc' = Some(WrongRulesetError)
            /\ ve_pc' = "raised"
            /\ UNCHANGED ve_out
       ELSE /\ ve_out' = Some([returned |-> TRUE, raised |-> None])
            /\ ve_pc' = "done"
            /\ UNCHANGED ve_exc
    /\ UNCHANGED <<ve_sparql, ve_actors, ve_plays_in, ve_query_exc>>
    /\ UNCHANGED <<cfg_vars, fl_vars, cc_vars, geo_vars>>

\* lines 105-106: an Exception is caught and raised again; anything else
\* leaves the try block as it is
Except ==
    /\ ve_pc = "raised"
    /\ ve_out' = Some([returned |-> FALSE,
                       raised |-> IF is_Exception(ve_exc[1])
                                  THEN Some(except_handler(ve_exc[1]))
                                  ELSE ve_exc])
    /\ ve_exc' = None
    /\ ve_pc' = "done"
    /\ UNCHANGED <<ve_sparql, ve_log, ve_actors, ve_plays_in, ve_query_exc>>
    /\ UNCHANGED <<cfg_vars, fl_vars, cc_vars, geo_vars>>

NextVerify ==
    \/ \E endpoint \in EndpointUrls : VerifyStart(endpoint)
    \/ \E response \in Responses : QueryActors(response)
    \/ \E response \in Responses : QueryPlaysIn(response)
    \/ Decide
    \/ Except

CfgIdle ==
    /\ fs = NoFile
    /\ pre_fs = NoFile
    /\ cfg_op = "none"
    /\ cfg_ret = NoReturn
    /\ last_overwrite = None

----------------------------------------------------------------------------
(* Filter builder *)

\* (mutant) the terms joined by a conjunction
generate_filter_string_and(filter_on, filter_vars) ==
    LET vars_prefixed == [i \in 1..Len(filter_vars) |->
                             "?" \o filter_on \o " = \"" \o filter_vars[i] \o "\""]
        vars_joined == join(" && ", vars_prefixed)
    IN "FILTER(" \o vars_joined \o ")"

generate_filter_string(filter_on, filter_vars) ==
    LET vars_prefixed == [i \in 1..Len(filter_vars) |->
                             "?" \o filter_on \o " = \"" \o filter_vars[i] \o "\""]
        vars_joined == join(" || ", vars_prefixed)
    IN "FILTER(" \o vars_joined \o ")"

FilterFields == {"title", "F", ""}
FilterValues == {"A", "B", "", "a\"b"}

RECURSIVE SeqsUpTo(_, _)
SeqsUpTo(S, n) ==
    IF n = 0 THEN {<<>>}
    ELSE LET shorter == SeqsUpTo(S, n - 1)
         IN shorter \cup {Append(w, x) : w \in shorter, x \in S}

FlIdle ==
    /\ fl_call = None
    /\ fl_result = None

GenerateFilter(filter_on, filter_vars) ==
    /\ fl_call' = Some([filter_on |-> filter_on, filter_vars |-> filter_vars])
    /\ fl_result' = Some(generate_filter_string(filter_on, filter_vars))
    /\ UNCHANGED <<cfg_vars, ve_vars, cc_vars, geo_vars>>

NextFilter ==
    \E filter_on \in FilterFields, filter_vars \in SeqsUpTo(FilterValues, MaxValues) :
        GenerateFilter(filter_on, filter_vars)

----------------------------------------------------------------------------
(* The config store called by several processes at once.  Nothing locks    *)
(* the file, so the steps of the calls interleave: the file-exists check   *)
(* (line 46), open(path, "w+") that truncates (line 33), the write that is *)
(* flushed when the with block closes the file (line 34), and the read     *)
(* (line 50).                                                              *)

Procs == 1..NProcs

\* the endpoints callers persist when they run concurrently
ConcEndpoints == {"u", "uu"}
ConcConfigs == {EndpointConfig(v) : v \in ConcEndpoints}

DefaultConfig == set_section(EmptyConfig, Configuration, Endpoint, "")

\* configfile.write(text) on a file opened at position 0: the text replaces
\* what the file holds from its start, what lies beyond the text stays
file_write(file, text) ==
    File(text \o SubSeq(file.text, Len(text) + 1, Len(file.text)))

InGetConfig(p) == pc[p] \in {"gc_open", "gc_write", "gc_read"}

CcIdle ==
    /\ pc = [p \in Procs |-> "idle"]
    /\ arg = [p \in Procs |-> EmptyConfig]
    /\ ret = [p \in Procs |-> None]
    /\ committed = None
    /\ gc_wrote = FALSE
    /\ ow_completed = FALSE
    /\ gc_after = [p \in Procs |-> FALSE]
    /\ gc_seen = [p \in Procs |-> None]
    /\ gc_clobber = [p \in Procs |-> FALSE]

\* get_config, lines 43-47: the file-exists check
GcCheck(p) ==
    /\ pc[p] = "idle"
    /\ pc' = [pc EXCEPT ![p] = IF isfile(fs) THEN "gc_read" ELSE "gc_open"]
    /\ arg' = [arg EXCEPT ![p] = IF isfile(fs) THEN EmptyConfig ELSE DefaultConfig]
    /\ ret' = [ret EXCEPT ![p] = None]
    /\ gc_after' = [gc_after EXCEPT ![p] = ow_completed]
    /\ gc_seen' = [gc_seen EXCEPT ![p] = committed]
    /\ gc_clobber' = [gc_clobber EXCEPT ![p] = gc_wrote]
    /\ UNCHANGED <<fs, committed, gc_wrote, ow_completed>>
    /\ UNCHANGED <<pre_fs, cfg_op, cfg_ret, last_overwrite, ve_vars, fl_vars, geo_vars>>

\* get_config, line 48 into line 33: the file is opened and truncated
GcOpen(p) ==
    /\ pc[p] = "gc_open"
    /\ fs' = open_w_plus(fs)
    /\ pc' = [pc EXCEPT ![p] = "gc_write"]
    /\ gc_wrote' = TRUE
    /\ gc_clobber' = [q \in Procs |-> gc_clobber[q] \/ InGetConfig(q)]
    /\ UNCHANGED <<arg, ret, committed, ow_completed, gc_after, gc_seen>>
    /\ UNCHANGED <<pre_fs, cfg_op, cfg_ret, last_overwrite, ve_vars, fl_vars, geo_vars>>

\* get_config, line 34: the default config is written
GcWrite(p) ==
    /\ pc[p] = "gc_write"
    /\ fs' = file_write(fs, config_write(arg[p]))
    /\ pc' = [pc EXCEPT ![p] = "gc_read"]
    /\ gc_wrote' = TRUE
    /\ gc_clobber' = [q \in Procs |-> gc_clobber[q] \/ InGetConfig(q)]
    /\ UNCHANGED <<arg, ret, committed, ow_completed, gc_after, gc_seen>>
    /\ UNCHANGED <<pre_fs, cfg_op, cfg_ret, last_overwrite, ve_vars, fl_vars, geo_vars>>

\* get_config, lines 50-52: the file is read and the config returned
GcRead(p) ==
    /\ pc[p] = "gc_read"
    /\ ret' = [ret EXCEPT ![p] = Some(config_read(arg[p], fs))]
    /\ pc' = [pc EXCEPT ![p] = "idle"]
    /\ UNCHANGED <<fs, arg, committed, gc_wrote, ow_completed, gc_after, gc_seen,
                   gc_clobber>>
    /\ UNCHANGED <<pre_fs, cfg_op, cfg_ret, last_overwrite, ve_vars, fl_vars, geo_vars>>

\* a caller's overwrite_config(config), lines 31-33: the file is opened and
\* truncated
OwOpen(p, config) ==
    /\ pc[p] = "idle"
    /\ fs' = open_w_plus(fs)
    /\ pc' = [pc EXCEPT ![p] = "ow_write"]
    /\ arg' = [arg EXCEPT ![p] = config]
    /\ ret' = [ret EXCEPT ![p] = None]
    /\ committed' = None
    /\ gc_seen' = [q \in Procs |-> IF InGetConfig(q) THEN None ELSE gc_seen[q]]
    /\ UNCHANGED <<gc_wrote, ow_completed, gc_after, gc_clobber>>
    /\ UNCHANGED <<pre_fs, cfg_op, cfg_ret, last_overwrite, ve_vars, fl_vars, geo_vars>>

\* a caller's overwrite_config(config), line 34: the config is written and
\* the call completes
OwWrite(p) ==
    /\ pc[p] = "ow_write"
    /\ fs' = file_write(fs, config_write(arg[p]))
    /\ pc' = [pc EXCEPT ![p] = "idle"]
    /\ committed' = IF fs' = File(config_write(arg[p])) THEN Some(arg[p]) ELSE None
    /\ gc_wrote' = FALSE
    /\ ow_completed' = TRUE
    /\ gc_seen' = [q \in Procs |-> IF InGetConfig(q) THEN None ELSE gc_seen[q]]
    /\ UNCHANGED <<arg, ret, gc_after, gc_clobber>>
    /\ UNCHANGED <<pre_fs, cfg_op, cfg_ret, last_overwrite, ve_vars, fl_vars, geo_vars>>

NextConc ==
    \/ \E p \in Procs : GcCheck(p)
    \/ \E p \in Procs : GcOpen(p)
    \/ \E p \in Procs : GcWrite(p)
    \/ \E p \in Procs : GcRead(p)
    \/ \E p \in Procs, config \in ConcConfigs : OwOpen(p, config)
    \/ \E p \in Procs : OwWrite(p)

----------------------------------------------------------------------------
(* Geo helpers.  Python's float is IEEE-754 binary64; its significand has   *)
(* 53 bits, more than an integer of the model holds, so a significand is a *)
(* natural number written in limbs: a sequence of digits in base 2^14,     *)
(* least significant first, without leading zero digits (zero is <<>>).    *)

RECURSIVE BitLen(_)
BitLen(n) == IF n = 0 THEN 0 ELSE 1 + BitLen(n \div 2)

Base == 2^14
LimbBits == BitLen(Base) - 1

Limb(a, i) == IF i <= Len(a) THEN a[i] ELSE 0

Min(x, y) == IF x <= y THEN x ELSE y

RECURSIVE BNorm(_)
BNorm(a) ==
    IF a = <<>> THEN a
    ELSE IF a[Len(a)] = 0 THEN BNorm(SubSeq(a, 1, Len(a) - 1))
    ELSE a

\* a natural number of the model as limbs
RECURSIVE BNat(_)
BNat(n) == IF n = 0 THEN <<>> ELSE <<n % Base>> \o BNat(n \div Base)

RECURSIVE BAddFrom(_, _, _, _, _)
BAddFrom(a, b, i, carry, acc) ==
    IF i > Len(a) /\ i > Len(b)
    THEN IF carry > 0 THEN Append(acc, carry) ELSE acc
    ELSE LET s == Limb(a, i) + Limb(b, i) + carry
         IN BAddFrom(a, b, i + 1, s \div Base, Append(acc, s % Base))

BAdd(a, b) == BAddFrom(a, b, 1, 0, <<>>)

RECURSIVE BSubFrom(_, _, _, _, _)
BSubFrom(a, b, i, borrow, acc) ==
    IF i > Len(a) THEN acc
    ELSE LET d == Limb(a, i) - Limb(b, i) - borrow
         IN IF d < 0 THEN BSubFrom(a, b, i + 1, 1, Append(acc, d + Base))
            ELSE BSubFrom(a, b, i + 1, 0, Append(acc, d))

\* a - b for a >= b
BSub(a, b) == BNorm(BSubFrom(a, b, 1, 0, <<>>))

RECURSIVE BCmpFrom(_, _, _)
BCmpFrom(a, b, i) ==
    IF i = 0 THEN 0
    ELSE IF a[i] < b[i] THEN -1
    ELSE IF a[i] > b[i] THEN 1
    ELSE BCmpFrom(a, b, i - 1)

\* -1, 0 or 1 as a < b, a = b or a > b
BCmp(a, b) ==
    IF Len(a) < Len(b) THEN -1
    ELSE IF Len(a) > Len(b) THEN 1
    ELSE BCmpFrom(a, b, Len(a))

RECURSIVE BMulSmallFrom(_, _, _, _, _)
BMulSmallFrom(a, k, i, carry, acc) ==
    IF i > Len(a)
    THEN IF carry > 0 THEN Append(acc, carry) ELSE acc
    ELSE LET s == a[i] * k + carry
         IN BMulSmallFrom(a, k, i + 1, s \div Base, Append(acc, s % Base))

\* a * k for 0 <= k <= Base
BMulSmall(a, k) == IF k = 0 THEN <<>> ELSE BMulSmallFrom(a, k, 1, 0, <<>>)

\* a * Base^n
BShlLimbs(a, n) == IF a = <<>> THEN a ELSE [i \in 1..n |-> 0] \o a

RECURSIVE BMulFrom(_, _, _, _)
BMulFrom(a, b, i, acc) ==
    IF i > Len(b) THEN acc
    ELSE BMulFrom(a, b, i + 1,
                  BAdd(acc, BShlLimbs(BMulSmall(a, b[i]), i - 1)))

BMul(a, b) == BMulFrom(a, b, 1, <<>>)

RECURSIVE BDivSmallFrom(_, _, _, _, _)
BDivSmallFrom(a, k, i, rem, acc) ==
    IF i = 0 THEN [q |-> BNorm(acc), r |-> rem]
    ELSE LET n == rem * Base + a[i]
         IN BDivSmallFrom(a, k, i - 1, n % k, <<n \div k>> \o acc)

\* quotient and remainder of a by k, 0 < k <= Base
BDivSmall(a, k) == BDivSmallFrom(a, k, Len(a), 0, <<>>)

\* a * 2^n
BShl(a, n) == BShlLimbs(BMulSmall(a, 2^(n % LimbBits)), n \div LimbBits)

\* floor(a / 2^n)
BShr(a, n) ==
    IF n \div LimbBits >= Len(a) THEN <<>>
    ELSE BDivSmall(SubSeq(a, n \div LimbBits + 1, Len(a)), 2^(n % LimbBits)).q

\* the number of bits of a
BBitLen(a) ==
    IF a = <<>> THEN 0 ELSE (Len(a) - 1) * LimbBits + BitLen(a[Len(a)])

(* A float is [neg, m, e], the number (-1)^neg * m * 2^e with m = <<>> for  *)
(* zero and 2^52 <= m < 2^53 otherwise.  The numbers of the model stay far *)
(* inside the exponent range of binary64, so overflow, subnormals and the  *)
(* sign of zero play no part.                                              *)

\* bits of the significand of a Python float (sys.float_info.mant_dig)
mant_dig == 53

Zero == [neg |-> FALSE, m |-> <<>>, e |-> 0]

\* m * 2^e rounded to the nearest float, ties to even
Round(neg, M, e) ==
    IF M = <<>> THEN Zero
    ELSE LET L == BBitLen(M)
         IN IF L <= mant_dig
            THEN [neg |-> neg, m |-> BShl(M, mant_dig - L),
                  e |-> e - (mant_dig - L)]
            ELSE LET sh == L - mant_dig
                     q == BShr(M, sh)
                     r == BSub(M, BShl(q, sh))
                     c == BCmp(r, BShl(<<1>>, sh - 1))
                     q1 == IF c = 1 \/ (c = 0 /\ q[1] % 2 = 1)
                           THEN BAdd(q, <<1>>) ELSE q
                 IN IF BBitLen(q1) > mant_dig
                    THEN [neg |-> neg, m |-> BShr(q1, 1), e |-> e + sh + 1]
                    ELSE [neg |-> neg, m |-> q1, e |-> e + sh]

\* the float n * 2^e for a natural number n of the model (negated if neg)
Float(neg, n, e) == Round(neg, BNat(n), e)

\* x + y
fadd(x, y) ==
    IF x.m = <<>> THEN y
    ELSE IF y.m = <<>> THEN x
    ELSE LET e == Min(x.e, y.e)
             X == BShl(x.m, x.e - e)
             Y == BShl(y.m, y.e - e)
             c == BCmp(X, Y)
         IN IF x.neg = y.neg THEN Round(x.neg, BAdd(X, Y), e)
            ELSE IF c = 0 THEN Zero
            ELSE IF c = 1 THEN Round(x.neg, BSub(X, Y), e)
            ELSE Round(y.neg, BSub(Y, X), e)

fneg(x) == IF x.m = <<>> THEN x ELSE [x EXCEPT !.neg = ~x.neg]

\* x - y
fsub(x, y) == fadd(x, fneg(y))

\* x * y
fmul(x, y) ==
    IF x.m = <<>> \/ y.m = <<>> THEN Zero
    ELSE Round(x.neg # y.neg, BMul(x.m, y.m), x.e + y.e)

\* a / b for ints 0 <= a and 0 < b <= 2^14: the quotient, correctly rounded
int_truediv(a, b) ==
    LET k == mant_dig + 2 + BitLen(b)
        d == BDivSmall(BShl(BNat(a), k), b)
        \* a set low bit stands for the remainder that was cut off
        M == IF d.r = 0 THEN BShl(d.q, 1) ELSE BAdd(BShl(d.q, 1), <<1>>)
    IN Round(FALSE, M, 0 - k - 1)

fsign(x) == IF x.m = <<>> THEN 0 ELSE IF x.neg THEN -1 ELSE 1

\* -1, 0 or 1 as x < y, x = y or x > y
fcmp(x, y) ==
    IF fsign(x) # fsign(y) THEN (IF fsign(x) < fsign(y) THEN -1 ELSE 1)
    ELSE IF fsign(x) = 0 THEN 0
    ELSE LET e == Min(x.e, y.e)
         IN fsign(x) * BCmp(BShl(x.m, x.e - e), BShl(y.m, y.e - e))

flt(x, y) == fcmp(x, y) = -1
fle(x, y) == fcmp(x, y) # 1

\* a mutation of get_minmax_coords: the radius is not padded
get_minmax_coords_unpadded(lat, lon, radius_km) ==
    LET lat_r == int_truediv(1, 111)
        lon_r == int_truediv(1, 73)
    IN [lat_min |-> fsub(lat, fmul(lat_r, radius_km)),
        lat_max |-> fadd(lat, fmul(lat_r, radius_km)),
        lon_min |-> fsub(lon, fmul(lon_r, radius_km)),
        lon_max |-> fadd(lon, fmul(lon_r, radius_km))]

\* get_minmax_coords(lat, lon, radius_km): the rough bounding box
get_minmax_coords(lat, lon, radius_km) ==
    LET radius_km2 == fadd(radius_km, Float(FALSE, 2, 0))
        lat_r == int_truediv(1, 111)
        lon_r == int_truediv(1, 73)
    IN [lat_min |-> fsub(lat, fmul(lat_r, radius_km2)),
        lat_max |-> fadd(lat, fmul(lat_r, radius_km2)),
        lon_min |-> fsub(lon, fmul(lon_r, radius_km2)),
        lon_max |-> fadd(lon, fmul(lon_r, radius_km2))]

(* haversine works on floats through libm's sin, cos, asin and sqrt.  The  *)
(* model computes it in fixed point: a number is [neg, mag], the number    *)
(* (-1)^neg * mag / 2^FracBits, and the functions are their power series,  *)
(* summed until the terms vanish.  The float result of the code and the    *)
(* fixed-point result agree to within HavErr.                              *)

FracBits == 4 * LimbBits

Fx(neg, mag) == [neg |-> neg /\ mag # <<>>, mag |-> mag]

\* a natural number of the model in fixed point
FxNat(n) == Fx(FALSE, BShl(BNat(n), FracBits))

\* a float in fixed point (bits below 2^-FracBits are cut off)
fx_of_float(x) ==
    IF x.m = <<>> THEN Fx(FALSE, <<>>)
    ELSE IF x.e + FracBits >= 0 THEN Fx(x.neg, BShl(x.m, x.e + FracBits))
    ELSE Fx(x.neg, BShr(x.m, 0 - (x.e + FracBits)))

fx_neg(a) == Fx(~a.neg, a.mag)

fx_add(a, b) ==
    IF a.neg = b.neg THEN Fx(a.neg, BAdd(a.mag, b.mag))
    ELSE IF BCmp(a.mag, b.mag) >= 0 THEN Fx(a.neg, BSub(a.mag, b.mag))
    ELSE Fx(b.neg, BSub(b.mag, a.mag))

fx_sub(a, b) == fx_add(a, fx_neg(b))

fx_mul(a, b) == Fx(a.neg # b.neg, BShr(BMul(a.mag, b.mag), FracBits))

\* a * k and a / k for a natural number 0 < k <= 2^14
fx_mul_small(a, k) == Fx(a.neg, BMulSmall(a.mag, k))
fx_div_small(a, k) == Fx(a.neg, BDivSmall(a.mag, k).q)

fx_le(a, b) ==
    IF a.neg # b.neg THEN a.neg
    ELSE IF a.neg THEN BCmp(a.mag, b.mag) >= 0
    ELSE BCmp(a.mag, b.mag) <= 0

\* math.pi, in fixed point
fx_pi == Fx(FALSE, <<8968, 8726, 13992, 2319, 3>>)

\* math.radians(x)
radians(x) == fx_div_small(fx_mul(x, fx_pi), 180)

\* the sum of the series whose term after `term` is
\* -term * x2 / ((n + 1) * (n + 2)), n growing by 2
RECURSIVE alt_series(_, _, _, _)
alt_series(x2, term, n, acc) ==
    IF term.mag = <<>> THEN acc
    ELSE alt_series(x2,
                    fx_neg(fx_div_small(fx_mul(term, x2), (n + 1) * (n + 2))),
                    n + 2, fx_add(acc, term))

\* math.sin(x) = x - x^3/3! + x^5/5! - ...
sin(x) == alt_series(fx_mul(x, x), x, 1, Fx(FALSE, <<>>))

\* math.cos(x) = 1 - x^2/2! + x^4/4! - ...
cos(x) == alt_series(fx_mul(x, x), FxNat(1), 0, Fx(FALSE, <<>>))

\* mag * 2^s, cut off below the last bit when s < 0
BShift(mag, s) == IF s >= 0 THEN BShl(mag, s) ELSE BShr(mag, 0 - s)

\* n steps of Newton's iteration y <- y * (3 - a * y * y) / 2 towards
\* 1 / sqrt(a)
RECURSIVE rsqrt_newton(_, _, _)
rsqrt_newton(a, y, n) ==
    IF n = 0 THEN y
    ELSE rsqrt_newton(a,
                      fx_div_small(fx_mul(y, fx_sub(FxNat(3),
                                                    fx_mul(a, fx_mul(y, y)))), 2),
                      n - 1)

\* math.sqrt(a) for a >= 0: a is scaled by a power of 4 into [1/4, 1),
\* where six steps from the chord 7/3 - 4a/3 of 1 / sqrt(a) reach all the
\* bits kept, and sqrt(a) = a * (1 / sqrt(a)) is scaled back
sqrt(a) ==
    IF a.mag = <<>> THEN Fx(FALSE, <<>>)
    ELSE LET d == FracBits - BBitLen(a.mag)
             s == d - (d % 2)
             a1 == Fx(FALSE, BShift(a.mag, s))
             y0 == fx_div_small(fx_sub(FxNat(7), fx_mul_small(a1, 4)), 3)
             y == rsqrt_newton(a1, y0, 6)
         IN Fx(FALSE, BShift(fx_mul(a1, y).mag, 0 - (s \div 2)))

\* the sum of the series whose term after `term` is
\* term * x2 * n^2 / ((n + 1) * (n + 2)), n growing by 2
RECURSIVE asin_series(_, _, _, _)
asin_series(x2, term, n, acc) ==
    IF term.mag = <<>> THEN acc
    ELSE asin_series(x2,
                     fx_div_small(fx_mul_small(fx_mul(term, x2), n * n),
                                  (n + 1) * (n + 2)),
                     n + 2, fx_add(acc, term))

\* math.asin(x) = x + x^3/6 + 3x^5/40 + ..., for |x| <= 1/2 (two points at
\* most 6600 km apart), where the terms vanish before n * n reaches 2^14
asin(x) == asin_series(fx_mul(x, x), x, 1, Fx(FALSE, <<>>))

\* haversine(lon1, lat1, lon2, lat2): the great-circle distance in km
haversine(lon1, lat1, lon2, lat2) ==
    LET rlon1 == radians(fx_of_float(lon1))
        rlat1 == radians(fx_of_float(lat1))
        rlon2 == radians(fx_of_float(lon2))
        rlat2 == radians(fx_of_float(lat2))
        dlon == fx_sub(rlon2, rlon1)
        dlat == fx_sub(rlat2, rlat1)
        sin_dlat == sin(fx_div_small(dlat, 2))
        sin_dlon == sin(fx_div_small(dlon, 2))
        a == fx_add(fx_mul(sin_dlat, sin_dlat),
                    fx_mul(fx_mul(cos(rlat1), cos(rlat2)),
                           fx_mul(sin_dlon, sin_dlon)))
        c == fx_mul_small(asin(sqrt(a)), 2)
        r == 6371
    IN fx_mul_small(c, r)

(* The geo helpers as a state machine: a caller holds a centre, asks for   *)
(* the bounding box of a radius around it (the previous answer is kept to  *)
(* compare two radii), and measures the distance of a candidate point.     *)

\* coordinates in degrees
InDegrees(lat, lon) ==
    /\ fle(Float(TRUE, 90, 0), lat) /\ fle(lat, Float(FALSE, 90, 0))
    /\ fle(Float(TRUE, 180, 0), lon) /\ fle(lon, Float(FALSE, 180, 0))

\* the centres of a search: the equator, London, 60 and 89 degrees north,
\* the corners of the coordinate range, and a latitude of 2^57
GeoCentres ==
    { [lat |-> Zero, lon |-> Zero],
      [lat |-> Float(FALSE, 103, -1), lon |-> Float(TRUE, 1, -3)],
      [lat |-> Float(FALSE, 60, 0), lon |-> Zero],
      [lat |-> Float(FALSE, 89, 0), lon |-> Zero],
      [lat |-> Float(TRUE, 90, 0), lon |-> Float(TRUE, 180, 0)],
      [lat |-> Float(FALSE, 90, 0), lon |-> Float(FALSE, 180, 0)],
      [lat |-> Float(FALSE, 1, 57), lon |-> Zero] }

\* the radii in km: 0, 2^-53, 1, 2, 100 and the Earth's circumference
GeoRadii ==
    { Zero, Float(FALSE, 1, -53), Float(FALSE, 1, 0), Float(FALSE, 2, 0),
      Float(FALSE, 100, 0), Float(FALSE, 40075, 0) }

\* where a candidate point lies from the centre, in degrees
GeoOffsets ==
    { [lat |-> Zero, lon |-> Zero],
      [lat |-> Zero, lon |-> Float(FALSE, 3, -1)],
      [lat |-> Zero, lon |-> Float(FALSE, 1, -2)],
      [lat |-> Float(FALSE, 1, -1), lon |-> Zero],
      [lat |-> Float(TRUE, 1, -2), lon |-> Float(TRUE, 1, 0)] }

GeoIdle ==
    /\ geo_lat = Zero
    /\ geo_lon = Zero
    /\ geo_prev = None
    /\ geo_box = None
    /\ geo_hav = None

GeoInit ==
    /\ \E c \in GeoCentres : geo_lat = c.lat /\ geo_lon = c.lon
    /\ geo_prev = None
    /\ geo_box = None
    /\ geo_hav = None

\* the caller asks for the box of radius_km around the centre
GetMinmaxCoords(radius_km) ==
    /\ geo_prev' = geo_box
    /\ geo_box' = Some([radius_km |-> radius_km,
                        box |-> get_minmax_coords(geo_lat, geo_lon, radius_km)])
    /\ UNCHANGED <<geo_lat, geo_lon, geo_hav>>
    /\ UNCHANGED <<cfg_vars, ve_vars, fl_vars, cc_vars>>

\* the caller measures the distance from the centre to a candidate point
Haversine(offset) ==
    /\ InDegrees(geo_lat, geo_lon)
    /\ LET lat == fadd(geo_lat, offset.lat)
           lon == fadd(geo_lon, offset.lon)
       IN geo_hav' = Some([lat |-> lat, lon |-> lon,
                           km |-> haversine(geo_lon, geo_lat, lon, lat)])
    /\ UNCHANGED <<geo_lat, geo_lon, geo_prev, geo_box>>
    /\ UNCHANGED <<cfg_vars, ve_vars, fl_vars, cc_vars>>

NextGeo ==
    \/ \E radius_km \in GeoRadii : GetMinmaxCoords(radius_km)
    \/ \E offset \in GeoOffsets : Haversine(offset)

----------------------------------------------------------------------------
(* The specifications of the validator, the filter builder and the geo     *)
(* helpers                                                                 *)

\* nothing has been called yet
InitIdle == CfgIdle /\ VeIdle /\ FlIdle /\ CcIdle /\ GeoIdle

SpecVerify == InitIdle /\ [][NextVerify]_vars

SpecFilter == InitIdle /\ [][NextFilter]_vars

InitGeo == CfgIdle /\ VeIdle /\ FlIdle /\ CcIdle /\ GeoInit

SpecGeo == InitGeo /\ [][NextGeo]_vars

\* the concurrent calls start without a config file
InitConc ==
    /\ fs = NoFile /\ pre_fs = NoFile /\ cfg_op = "none" /\ cfg_ret = NoReturn
    /\ last_overwrite = None
    /\ VeIdle /\ FlIdle /\ CcIdle /\ GeoIdle

SpecConc == InitConc /\ [][NextConc]_vars

----------------------------------------------------------------------------
(* The config store, called in sequence by one process *)

Init == CfgInit /\ VeIdle /\ FlIdle /\ CcIdle /\ GeoIdle

Spec == Init /\ [][Next]_vars

----------------------------------------------------------------------------
(* Claims about the config store, checked under Spec *)

\* an endpoint of one line
single_line(v) == NL \notin Range(v)

\* the text of a config file holding Endpoint = ""
DefaultFileText == "[Configuration]\nendpoint = \n\n"

\* the Endpoint of an optional config: None when there is no config or no
\* such option, Some(value) otherwise
EndpointOf(config) ==
    IF config = None THEN None
    ELSE get_option(config[1], Configuration, Endpoint)

ReturnedEndpoint == EndpointOf(cfg_ret.config)

\* C3: get_config() with no file at the config path creates the file with
\* section Configuration and key Endpoint set to the empty string, raises
\* nothing, and returns a config whose Endpoint is the empty string; the
\* file exists when the call has returned.
C3_FreshConfigCreated ==
    (cfg_op = "get_config" /\ pre_fs = NoFile) =>
        /\ isfile(fs)
        /\ fs.text = DefaultFileText
        /\ cfg_ret.raised = "none"
        /\ ReturnedEndpoint = Some("")

C3_Witness ==
    /\ cfg_op = "get_config"
    /\ pre_fs = NoFile
    /\ fs = File(DefaultFileText)

\* C4: get_config() with a file at the config path writes nothing: the file
\* is afterwards what it was before, the config returned is the one the
\* file holds (for a file whose Endpoint line holds v, the endpoint v), and
\* an endpoint that is not empty is never reset to the empty default,
\* however often get_config is called.
C4_ExistingConfigUntouched ==
    (cfg_op = "get_config" /\ isfile(pre_fs)) =>
        /\ fs = pre_fs
        /\ cfg_ret = config_read(EmptyConfig, pre_fs)
        /\ (\A v \in Endpoints :
               /\ single_line(v)
               /\ strip(v) = v
               /\ pre_fs.text = "[Configuration]\nendpoint = " \o v \o "\n\n"
               => ReturnedEndpoint = Some(v))

C4_Witness ==
    /\ cfg_op = "get_config"
    /\ pre_fs = File("[Configuration]\nendpoint = u\n\n")
    /\ ReturnedEndpoint = Some("u")



LastEndpoint == EndpointOf(last_overwrite)

\* C5 as stated: in any sequence of get_config and overwrite_config calls a
\* get_config returns exactly the endpoint of the config passed to the
\* most recent overwrite_config, and the file holds that config's text only.
C5_RoundTripExact ==
    (cfg_op = "get_config" /\ last_overwrite # None) =>
        /\ cfg_ret.raised = "none"
        /\ ReturnedEndpoint = LastEndpoint
        /\ fs = File(config_write(last_overwrite[1]))

\* C5 as amended: the file holds the text of the config passed to the most
\* recent overwrite_config and nothing else, get_config raises nothing, and
\* for an endpoint of one line it returns that endpoint with leading and
\* trailing whitespace stripped: exactly the endpoint when it has none.
C5_RoundTripStripped ==
    (cfg_op = "get_config" /\ last_overwrite # None) =>
        /\ cfg_ret.raised = "none"
        /\ fs = File(config_write(last_overwrite[1]))
        /\ (LastEndpoint = None => ReturnedEndpoint = None)
        /\ (LastEndpoint # None /\ single_line(LastEndpoint[1]) =>
               /\ ReturnedEndpoint = Some(strip(LastEndpoint[1]))
               /\ (strip(LastEndpoint[1]) = LastEndpoint[1]
                      => ReturnedEndpoint = LastEndpoint))

C5_Witness ==
    /\ cfg_op = "get_config"
    /\ last_overwrite = Some(EndpointConfig("u#"))
    /\ ReturnedEndpoint = Some("u#")
    /\ pre_fs = fs

----------------------------------------------------------------------------
(* Claims about the config store under concurrent calls, checked under     *)
(* SpecConc                                                                *)

\* what process p's get_config returned as the endpoint
RetEndpoint(p) == EndpointOf(ret[p][1].config)

\* the file holds exactly what overwrite_config(config) writes
Holds(config) == fs = File(config_write(config[1]))

\* C10 as stated: an endpoint persisted by a completed overwrite_config is
\* never replaced by the default that get_config writes, and a get_config
\* that starts after that overwrite_config completed returns that endpoint
\* unless another caller's overwrite_config intervened, whatever the
\* interleaving of the calls' steps.
C10_DefaultNeverReplaces ==
    /\ committed # None => Holds(committed)
    /\ \A p \in Procs :
        (ret[p] # None /\ gc_after[p] /\ gc_seen[p] # None) =>
            /\ ret[p][1].raised = "none"
            /\ RetEndpoint(p) = EndpointOf(gc_seen[p])

\* C10 amended: a get_config that starts after an overwrite_config completed
\* never writes the file; a persisted endpoint stays in the file until
\* another caller's overwrite_config, or the default write of a get_config
\* whose file-exists check ran before the file existed, replaces it; and a
\* get_config that starts after the overwrite_config completed returns that
\* endpoint unless one of these two intervened.
C10_OnlyStaleDefaultReplaces ==
    /\ \A p \in Procs : gc_after[p] => pc[p] \notin {"gc_open", "gc_write"}
    /\ (committed # None /\ ~gc_wrote) => Holds(committed)
    /\ \A p \in Procs :
        (ret[p] # None /\ gc_after[p] /\ gc_seen[p] # None /\ ~gc_clobber[p]) =>
            /\ ret[p][1].raised = "none"
            /\ RetEndpoint(p) = EndpointOf(gc_seen[p])

\* a get_config that started after overwrite_config persisted "uu" has
\* returned "uu", and a get_config whose check preceded the file has since
\* truncated the file
C10_Witness ==
    \E p, q \in Procs :
        /\ ret[p] # None /\ gc_after[p] /\ ~gc_clobber[p]
        /\ gc_seen[p] = Some(EndpointConfig("uu"))
        /\ RetEndpoint(p) = Some("uu")
        /\ pc[q] = "gc_write"
        /\ committed = gc_seen[p]
        /\ fs = File("")

----------------------------------------------------------------------------
(* Claims about verify_endpoint, checked under SpecVerify *)

Returned == Some([returned |-> TRUE, raised |-> None])
Raised(e) == Some([returned |-> FALSE, raised |-> Some(e)])

BothCompleted == ve_actors # None /\ ve_plays_in # None

\* C1: when both canary queries complete without a transport or parse
\* error, verify_endpoint raises WrongRulesetError (with its fixed message)
\* if at least one of the two tables has no rows, and returns without
\* raising if both tables have at least one row.
C1_RowCountDecision ==
    (ve_pc = "done" /\ BothCompleted) =>
        IF len(ve_actors[1]) = 0 \/ len(ve_plays_in[1]) = 0
        THEN ve_out = Raised(WrongRulesetError)
        ELSE ve_out = Returned

C1_Witness ==
    /\ ve_pc = "done"
    /\ BothCompleted
    /\ len(ve_actors[1]) > 0
    /\ len(ve_plays_in[1]) = 0
    /\ ve_out = Raised(WrongRulesetError)

\* C2: a transport or parse failure raised by either canary query leaves
\* verify_endpoint as the same error (kind and message), never as
\* WrongRulesetError; a WrongRulesetError passes the catch-and-reraise
\* block unchanged; so WrongRulesetError leaves the call only when both
\* queries completed.
C2_ErrorsPropagate ==
    ve_pc = "done" =>
        /\ ve_query_exc # None =>
              /\ ve_out = Raised(ve_query_exc[1])
              /\ ve_out[1].raised[1].kind # "WrongRulesetError"
        /\ (ve_query_exc = None /\ ~ve_out[1].returned) =>
              ve_out = Raised(WrongRulesetError)
        /\ (~ve_out[1].returned /\ ve_out[1].raised[1].kind = "WrongRulesetError") =>
              ve_query_exc = None /\ BothCompleted

C2_Witness ==
    /\ ve_pc = "done"
    /\ ve_plays_in = None
    /\ ve_actors # None
    /\ ve_query_exc = Some(Exc("URLError", "Connection refused"))
    /\ ve_out = Raised(Exc("URLError", "Connection refused"))

FullActorQuery ==
    "PREFIX ml: <http://example.com/movieLocations/> SELECT * WHERE {?actor rdf:type ml:Actor} LIMIT 5"
FullPlaysInQuery ==
    "PREFIX ml: <http://example.com/movieLocations/> SELECT * WHERE {?actor ml:playsIn ?show} LIMIT 5"

IsQuery(i, query) == ve_log[i].op = "query" /\ ve_log[i].query = query

\* C9: within one verify_endpoint call the timeout of 5 seconds is set
\* before any query is executed, the Actor query is executed before the
\* playsIn query, each at most once, the playsIn query is not executed when
\* the Actor query failed, the row counts decide only after both queries
\* have completed, and nothing follows a failed query.
C9_CallOrder ==
    LET n == Len(ve_log)
        Queries(q) == {i \in 1..n : IsQuery(i, q)}
    IN /\ \A i \in 1..n : ve_log[i].op = "query" =>
              /\ i > 1
              /\ ve_log[1] = [op |-> "setTimeout", timeout |-> Some(5)]
              /\ ve_log[i].timeout = Some(5)
              /\ ve_log[i].query \in {FullActorQuery, FullPlaysInQuery}
       /\ Cardinality(Queries(FullActorQuery)) <= 1
       /\ Cardinality(Queries(FullPlaysInQuery)) <= 1
       /\ \A i \in Queries(FullPlaysInQuery) :
              \E j \in Queries(FullActorQuery) : j < i /\ ve_log[j].ok
       /\ \A i \in 1..n : ve_log[i].op = "decide" =>
              /\ \E j \in Queries(FullActorQuery) : j < i /\ ve_log[j].ok
              /\ \E k \in Queries(FullPlaysInQuery) : k < i /\ ve_log[k].ok
       /\ \A i \in 1..n : (ve_log[i].op = "query" /\ ~ve_log[i].ok) => i = n
       /\ ve_pc = "done" => (ve_out[1].returned => ve_log[n].op = "decide")

C9_Witness ==
    /\ ve_pc = "done"
    /\ Len(ve_log) = 4
    /\ ve_log[1].op = "setTimeout"
    /\ IsQuery(2, FullActorQuery)
    /\ IsQuery(3, FullPlaysInQuery)
    /\ ve_log[4].op = "decide"

----------------------------------------------------------------------------
(* Claims about generate_filter_string, checked under SpecFilter *)

Term(F, v) == "?" \o F \o " = \"" \o v \o "\""

\* the terms of values[1..n] in order, " || " before every term but the first
RECURSIVE TermsUpTo(_, _, _)
TermsUpTo(F, values, n) ==
    IF n = 0 THEN ""
    ELSE TermsUpTo(F, values, n - 1) \o (IF n = 1 THEN "" ELSE " || ")
         \o Term(F, values[n])

\* C6: generate_filter_string(F, values) is "FILTER(", one term ?F = "v" per
\* element v of values in the order of the list (duplicates kept), the
\* terms separated by " || ", and ")": ("title", ["A", "B"]) gives
\* FILTER(?title = "A" || ?title = "B"), one element gives one term and no
\* separator, and the empty list gives FILTER().
C6_FilterString ==
    fl_call # None =>
        LET F == fl_call[1].filter_on
            values == fl_call[1].filter_vars
            result == fl_result[1]
        IN /\ result = "FILTER(" \o TermsUpTo(F, values, Len(values)) \o ")"
           /\ (F = "title" /\ values = <<"A", "B">>) =>
                  result = "FILTER(?title = \"A\" || ?title = \"B\")"
           /\ Len(values) = 1 => result = "FILTER(?" \o F \o " = \"" \o values[1] \o "\")"
           /\ values = <<>> => result = "FILTER()"

C6_Witness ==
    /\ fl_call = Some([filter_on |-> "title", filter_vars |-> <<"A", "B">>])
    /\ fl_result = Some("FILTER(?title = \"A\" || ?title = \"B\")")

----------------------------------------------------------------------------
(* Claims about the geo helpers, checked under SpecGeo *)

\* the centre lies strictly inside the box
CentreInside(box) ==
    /\ flt(box.lat_min, geo_lat) /\ flt(geo_lat, box.lat_max)
    /\ flt(box.lon_min, geo_lon) /\ flt(geo_lon, box.lon_max)

\* every side of `wide` lies strictly beyond that side of `narrow`
StrictlyWider(narrow, wide) ==
    /\ flt(wide.lat_min, narrow.lat_min) /\ flt(narrow.lat_max, wide.lat_max)
    /\ flt(wide.lon_min, narrow.lon_min) /\ flt(narrow.lon_max, wide.lon_max)

\* no side of `wide` lies inside that side of `narrow`
NotNarrower(narrow, wide) ==
    /\ fle(wide.lat_min, narrow.lat_min) /\ fle(narrow.lat_max, wide.lat_max)
    /\ fle(wide.lon_min, narrow.lon_min) /\ fle(narrow.lon_max, wide.lon_max)

\* the two calls of get_minmax_coords the caller made, as <<smaller radius,
\* larger radius>> in either order
RadiusPairs ==
    IF geo_prev = None \/ geo_box = None THEN {}
    ELSE {pair \in {<<geo_prev[1], geo_box[1]>>, <<geo_box[1], geo_prev[1]>>} :
            flt(pair[1].radius_km, pair[2].radius_km)}

\* C7 as stated: for any lat, lon and any radius_km >= 0, get_minmax_coords
\* returns lat_min < lat < lat_max and lon_min < lon < lon_max, and for
\* r1 < r2 with the same centre every side of the box of r2 lies strictly
\* beyond that side of the box of r1.
C7_StrictBoxAnyInput ==
    /\ geo_box # None => CentreInside(geo_box[1].box)
    /\ \A pair \in RadiusPairs : StrictlyWider(pair[1].box, pair[2].box)

\* C7 amended: for a centre in degrees (-90 <= lat <= 90, -180 <= lon <= 180)
\* and any radius_km >= 0, the centre lies strictly inside the box; for
\* r1 < r2 no side of the box of r2 lies inside that side of the box of r1;
\* and when r2 is at least 1 km more than r1 every side lies strictly beyond.
C7_BoxInDegrees ==
    InDegrees(geo_lat, geo_lon) =>
        /\ geo_box # None => CentreInside(geo_box[1].box)
        /\ \A pair \in RadiusPairs :
            /\ NotNarrower(pair[1].box, pair[2].box)
            /\ fle(fadd(pair[1].radius_km, Float(FALSE, 1, 0)), pair[2].radius_km) =>
                   StrictlyWider(pair[1].box, pair[2].box)

\* London as the centre, the box of radius 0 asked for and then the box of
\* radius 2^-53: the same box, with the centre strictly inside
C7_Witness ==
    /\ geo_lat = Float(FALSE, 103, -1)
    /\ geo_prev # None /\ geo_box # None
    /\ geo_prev[1].radius_km = Zero
    /\ geo_box[1].radius_km = Float(FALSE, 1, -53)
    /\ geo_box[1].box = geo_prev[1].box
    /\ CentreInside(geo_box[1].box)

\* what the fixed-point distance may differ by from the float the code
\* computes: 2^-10 km
HavErr == Fx(FALSE, BShl(<<1>>, FracBits - 10))

\* C8: the box of get_minmax_coords(lat, lon, radius_km) strictly contains
\* the search radius: a point whose haversine distance from the centre is at
\* most radius_km (here: is so by more than the accuracy of the modelled
\* distance) has its latitude strictly between lat_min and lat_max and its
\* longitude strictly between lon_min and lon_max, at every latitude.
C8_BoxContainsRadius ==
    (/\ geo_box # None
     /\ geo_hav # None
     /\ fx_le(fx_add(geo_hav[1].km, HavErr),
              fx_of_float(geo_box[1].radius_km))) =>
        /\ flt(geo_box[1].box.lat_min, geo_hav[1].lat)
        /\ flt(geo_hav[1].lat, geo_box[1].box.lat_max)
        /\ flt(geo_box[1].box.lon_min, geo_hav[1].lon)
        /\ flt(geo_hav[1].lon, geo_box[1].box.lon_max)

====
